---- MODULE Spec2Model ----
(***************************************************************************)
(* DeepThink: the reasoning-stream reassembler of the chat route           *)
(* (POST.transformStream), the incremental response parser                 *)
(* (parseR1Response) and the conversation tree of the canvas context       *)
(* (getAncestralContext, sendMessage, createBranch, createBranchWithQuery, *)
(* deleteThread).                                                          *)
(*                                                                         *)
(* Two specifications share the module:                                    *)
(*   SpecStream  one upstream response cut into chunks and pushed through  *)
(*               transform/flush;                                          *)
(*   Spec        the conversation tree of one session under user actions.  *)
(***************************************************************************)
EXTENDS Integers, Sequences, FiniteSets, TLC

VARIABLES
    events,       \* upstream events of the response (SpecStream input)
    terminated,   \* whether the last upstream record ends with a newline
    rest,         \* upstream bytes not yet delivered to transform
    st,           \* reassembler state: decoder, buffer, flags, enqueued bytes
    spc,          \* "open" while chunks arrive, "closed" after flush
    midCut,       \* some chunk so far ended inside a record or a character
    threads,      \* session.threads: Map in insertion order, as a sequence
    activeThreadId,
    idCounter,    \* source of fresh thread and message ids
    requests,     \* model requests in flight
    isLoading,
    abortControllerRef,  \* abortControllerRef.current: a request id or Null
    lastOp,       \* the last user operation and what it assembled
    walk,         \* the ancestor walk of getAncestralContext in progress
    stored,       \* what localStorage holds under STORAGE_KEY at mount
    sessions,     \* the session list, in list order
    activeSessionId,
    isHydrated,
    parsing       \* a buffer, and what parseR1Response returned for it

streamVars == <<events, terminated, rest, st, spc, midCut>>
treeVars == <<threads, activeThreadId, idCounter, requests, isLoading,
              abortControllerRef, lastOp>>
vars == <<events, terminated, rest, st, spc, midCut,
          threads, activeThreadId, idCounter, requests, isLoading,
          abortControllerRef, lastOp, walk,
          stored, sessions, activeSessionId, isHydrated, parsing>>
sessionVars == <<stored, sessions, activeSessionId, isHydrated>>

(***************************************************************************)
(* Bounds                                                                  *)
(***************************************************************************)
MaxEvents == 3

MaxThreads == 3

MaxMessages == 6

\* SpecRequests: model requests started
MaxRequests == 3

\* SpecParse: symbols of the buffer
MaxBuffer == 7

\* SpecSessions: sessions of a stored snapshot
MaxSessions == 2

\* SpecSessions: default sessions created after hydration
MaxCreated == 2

\* SpecWalk: ancestors the walk keeps on record.  The chain of the code is
\* unbounded; the model starts its record afresh when it holds MaxChain
\* entries, which a walk over an acyclic map of MaxThreads threads never does
MaxChain == 4

(***************************************************************************)
(* Generic sequence helpers                                                *)
(***************************************************************************)
Take(s, n) == SubSeq(s, 1, n)

Drop(s, n) == SubSeq(s, n + 1, Len(s))

Last(s) == s[Len(s)]

Front(s) == SubSeq(s, 1, Len(s) - 1)

RECURSIVE Flatten(_)
Flatten(ss) == IF ss = <<>> THEN <<>> ELSE Head(ss) \o Flatten(Tail(ss))

Count(s, x) == Cardinality({i \in 1..Len(s) : s[i] = x})

(***************************************************************************)
(* Text.  A character is a symbol; the byte stream carries one byte per    *)
(* ASCII symbol and the two bytes C3 A9 for the character e-acute.         *)
(***************************************************************************)
Whitespace == {" ", "\n", "\r"}

RECURSIVE TrimStart(_)
TrimStart(s) ==
    IF s # <<>> /\ Head(s) \in Whitespace THEN TrimStart(Tail(s)) ELSE s

RECURSIVE TrimEnd(_)
TrimEnd(s) ==
    IF s # <<>> /\ Last(s) \in Whitespace THEN TrimEnd(Front(s)) ELSE s

\* String.prototype.trim
Trim(s) == TrimEnd(TrimStart(s))

\* TextEncoder.encode
RECURSIVE encode(_)
encode(text) ==
    IF text = <<>> THEN <<>>
    ELSE (IF Head(text) = "é" THEN <<"C3", "A9">> ELSE <<Head(text)>>)
         \o encode(Tail(text))

\* The complete characters of a byte sequence; an ill-formed byte decodes
\* to U+FFFD.  A trailing lead byte is left to decodePending.
RECURSIVE decodeComplete(_)
decodeComplete(bytes) ==
    IF bytes = <<>> THEN <<>>
    ELSE IF Head(bytes) = "C3"
         THEN IF Len(bytes) = 1 THEN <<>>
              ELSE IF bytes[2] = "A9"
                   THEN <<"é">> \o decodeComplete(Drop(bytes, 2))
                   ELSE <<"FFFD">> \o decodeComplete(Tail(bytes))
         ELSE IF Head(bytes) = "A9"
              THEN <<"FFFD">> \o decodeComplete(Tail(bytes))
              ELSE <<Head(bytes)>> \o decodeComplete(Tail(bytes))

RECURSIVE decodePending(_)
decodePending(bytes) ==
    IF bytes = <<>> THEN <<>>
    ELSE IF Head(bytes) = "C3"
         THEN IF Len(bytes) = 1 THEN bytes
              ELSE IF bytes[2] = "A9" THEN decodePending(Drop(bytes, 2))
                   ELSE decodePending(Tail(bytes))
         ELSE decodePending(Tail(bytes))

\* TextDecoder.decode(chunk, { stream: true }): the bytes of an incomplete
\* trailing character stay in the decoder for the next call.
decode(pending, chunk) ==
    [text    |-> decodeComplete(pending \o chunk),
     pending |-> decodePending(pending \o chunk)]

(***************************************************************************)
(* Upstream wire format.  An event is a `data:` record carrying a JSON     *)
(* chunk (choices[0].delta and choices[0].finish_reason) or the            *)
(* end-of-stream marker [DONE]; every record ends with a newline, except   *)
(* possibly the last one of a stream that closes early.                    *)
(***************************************************************************)
ReasoningTexts == {<<"p">>, <<"é">>}

AnswerTexts == {<<"a">>}

\* OpenAIStreamChoice: an absent or empty field is the empty text
Choices ==
    [reasoning_content : ReasoningTexts \cup {<<>>},
     content           : AnswerTexts \cup {<<>>},
     finish_reason     : BOOLEAN]

chunkEvent(r, c, f) ==
    [type |-> "chunk",
     choice |-> [reasoning_content |-> r, content |-> c, finish_reason |-> f]]

\* The events an upstream response is made of: a reasoning delta, an answer
\* delta, both in one chunk, the finish signal, the end-of-stream marker
Events ==
    {chunkEvent(r, <<>>, FALSE) : r \in ReasoningTexts}
    \cup {chunkEvent(<<>>, c, FALSE) : c \in AnswerTexts}
    \cup {chunkEvent(<<"p">>, <<"a">>, FALSE), chunkEvent(<<>>, <<>>, TRUE)}
    \cup {[type |-> "done"]}

\* JSON.stringify of an upstream chunk, one symbol per structural token
stringify(ch) ==
    <<"{">>
    \o (IF ch.reasoning_content # <<>> THEN <<"R:">> \o ch.reasoning_content ELSE <<>>)
    \o (IF ch.content # <<>> THEN <<"C:">> \o ch.content ELSE <<>>)
    \o (IF ch.finish_reason THEN <<"F">> ELSE <<>>)
    \o <<"}">>

\* The records that carry no delta: a line of another field than data, a
\* data record whose JSON text is cut short, a chunk with an empty choices
\* array, a chunk whose first choice has no delta
MalformedEvents ==
    {[type |-> "otherField"], [type |-> "unparseable"],
     [type |-> "noChoice"], [type |-> "noDelta"]}

\* JSON text of a chunk with `"choices": []`, and of one with `"choices": [{}]`
NoChoiceText == <<"{", "[]", "}">>

NoDeltaText == <<"{", "[{}]", "}">>

\* JSON.parse: the chunk whose text is `data`, or a failure (it throws);
\* delta tells whether parsed.choices[0].delta is there
JSONparse(data) ==
    IF \E ch \in Choices : stringify(ch) = data
    THEN [ok |-> TRUE, delta |-> TRUE,
          choice |-> CHOOSE ch \in Choices : stringify(ch) = data]
    ELSE IF data \in {NoChoiceText, NoDeltaText}
         THEN [ok |-> TRUE, delta |-> FALSE]
         ELSE [ok |-> FALSE, delta |-> FALSE]

record(e) ==
    IF e.type = "otherField" THEN <<"id:", " ", "{", "R:", "p", "}">>
    ELSE <<"data:", " ">>
         \o (IF e.type = "done" THEN <<"[DONE]">>
             ELSE IF e.type = "unparseable" THEN <<"{", "R:", "p">>
             ELSE IF e.type = "noChoice" THEN NoChoiceText
             ELSE IF e.type = "noDelta" THEN NoDeltaText
             ELSE stringify(e.choice))

RECURSIVE wire(_)
wire(es) ==
    IF es = <<>> THEN <<>> ELSE record(Head(es)) \o <<"\n">> \o wire(Tail(es))

\* The bytes the upstream sends for the events es
upstreamBytes(es, term) ==
    IF es = <<>> \/ term THEN encode(wire(es)) ELSE Front(encode(wire(es)))

(***************************************************************************)
(* The chat route's transform stream (POST.transformStream)                *)
(***************************************************************************)
OpenTag == <<"<think>", "\n">>

CloseTag == <<"\n", "</think>", "\n", "\n">>

CloseTagDone == <<"</think>", "\n", "\n">>

\* let isInReasoningPhase = false; let hasStartedContent = false; let buffer = ""
initialStream ==
    [decoder |-> <<>>, buffer |-> <<>>,
     isInReasoningPhase |-> FALSE, hasStartedContent |-> FALSE,
     out |-> <<>>]

\* controller.enqueue(encoder.encode(text))
enqueue(s, text) == [s EXCEPT !.out = @ \o encode(text)]

\* buffer.split("\n")
RECURSIVE split(_)
split(s) ==
    IF \E i \in 1..Len(s) : s[i] = "\n"
    THEN LET i == CHOOSE k \in 1..Len(s) :
                      s[k] = "\n" /\ \A j \in 1..(k - 1) : s[j] # "\n"
         IN  <<Take(s, i - 1)>> \o split(Drop(s, i))
    ELSE <<s>>

\* A test that takes the line of any field for a data record
startsWithField(line) == Len(line) >= 2 /\ line[2] = " "

\* trimmedLine.startsWith("data: ")
startsWithData(line) == Len(line) >= 2 /\ line[1] = "data:" /\ line[2] = " "

\* onReasoning without the isInReasoningPhase test: every reasoning delta
\* opens a span
onReasoningReopen(s, choice) ==
    IF choice.reasoning_content # <<>>
    THEN enqueue([enqueue(s, OpenTag) EXCEPT !.isInReasoningPhase = TRUE],
                 choice.reasoning_content)
    ELSE s

\* if (delta.reasoning_content) { ... }
onReasoning(s, choice) ==
    IF choice.reasoning_content # <<>>
    THEN LET s1 == IF ~s.isInReasoningPhase
                   THEN [enqueue(s, OpenTag) EXCEPT !.isInReasoningPhase = TRUE]
                   ELSE s
         IN  enqueue(s1, choice.reasoning_content)
    ELSE s

\* if (delta.content) { ... }
onContent(s, choice) ==
    IF choice.content # <<>>
    THEN LET s1 == IF s.isInReasoningPhase /\ ~s.hasStartedContent
                   THEN [enqueue(s, CloseTag) EXCEPT !.hasStartedContent = TRUE]
                   ELSE s
         IN  enqueue(s1, choice.content)
    ELSE s

\* if (choice.finish_reason) { ... }
onFinish(s, choice) ==
    IF choice.finish_reason /\ s.isInReasoningPhase /\ ~s.hasStartedContent
    THEN enqueue(s, CloseTag)
    ELSE s

\* The body of `for (const line of lines)` in transform
processLine(s, line) ==
    LET trimmedLine == Trim(line) IN
    IF trimmedLine = <<>> \/ ~startsWithData(trimmedLine) THEN s
    ELSE LET data == Trim(Drop(trimmedLine, 2)) IN
         IF data = <<"[DONE]">>
         THEN IF s.isInReasoningPhase /\ ~s.hasStartedContent
              THEN enqueue(s, CloseTagDone)
              ELSE s
         ELSE LET parsed == JSONparse(data) IN
              IF ~parsed.ok \/ ~parsed.delta THEN s
              ELSE onFinish(onContent(onReasoning(s, parsed.choice),
                                      parsed.choice),
                            parsed.choice)

RECURSIVE processLines(_, _)
processLines(s, lines) ==
    IF lines = <<>> THEN s
    ELSE processLines(processLine(s, Head(lines)), Tail(lines))

\* transform with `buffer = text` in place of `buffer += text`: the
\* unterminated remainder of the previous chunk is lost
transformNoCarry(s, chunk) ==
    LET d     == decode(s.decoder, chunk)
        lines == split(d.text)
        s1    == [s EXCEPT !.decoder = d.pending, !.buffer = Last(lines)]
    IN  processLines(s1, Front(lines))

\* transform(chunk, controller)
transform(s, chunk) ==
    LET d     == decode(s.decoder, chunk)
        lines == split(s.buffer \o d.text)
        s1    == [s EXCEPT !.decoder = d.pending, !.buffer = Last(lines)]
    IN  processLines(s1, Front(lines))

\* flush(controller)
flush(s) ==
    LET trimmedLine == Trim(s.buffer)
        data   == Trim(Drop(trimmedLine, 2))
        parsed == JSONparse(data)
        s1 == IF /\ trimmedLine # <<>>
                 /\ startsWithData(trimmedLine)
                 /\ data # <<"[DONE]">>
                 /\ parsed.ok
                 /\ parsed.delta
                 /\ parsed.choice.content # <<>>
              THEN enqueue(s, parsed.choice.content)
              ELSE s
    IN  IF s1.isInReasoningPhase /\ ~s1.hasStartedContent
        THEN enqueue(s1, CloseTag)
        ELSE s1

(***************************************************************************)
(* The incremental response parser (parseR1Response)                       *)
(***************************************************************************)
Undefined == <<"undefined">>

FirstIndex(s, x) ==
    IF \E i \in 1..Len(s) : s[i] = x
    THEN CHOOSE i \in 1..Len(s) : s[i] = x /\ \A j \in 1..(i - 1) : s[j] # x
    ELSE 0

\* The first match of /<think>([\s\S]*?)<\/think>/ in s: [from, to], or
\* from = 0 when there is none
firstThink(s) ==
    LET i == FirstIndex(s, "<think>")
        j == IF i = 0 THEN 0 ELSE FirstIndex(Drop(s, i), "</think>")
    IN  IF i = 0 \/ j = 0 THEN [from |-> 0, to |-> 0]
        ELSE [from |-> i, to |-> i + j]

\* while ((match = thinkRegex.exec(rawResponse)) !== null) push(match[1].trim())
RECURSIVE thinkMatches(_)
thinkMatches(s) ==
    LET m == firstThink(s) IN
    IF m.from = 0 THEN <<>>
    ELSE <<Trim(SubSeq(s, m.from + 1, m.to - 1))>> \o thinkMatches(Drop(s, m.to))

\* rawResponse.replace(thinkRegex, '')
RECURSIVE removeThink(_)
removeThink(s) ==
    LET m == firstThink(s) IN
    IF m.from = 0 THEN s
    ELSE Take(s, m.from - 1) \o removeThink(Drop(s, m.to))

\* A join with a single line break
RECURSIVE joinLine(_)
joinLine(ms) ==
    IF Len(ms) = 1 THEN ms[1]
    ELSE ms[1] \o <<"\n">> \o joinLine(Tail(ms))

\* thinkMatches.join('\n\n')
RECURSIVE join(_)
join(ms) ==
    IF Len(ms) = 1 THEN ms[1]
    ELSE ms[1] \o <<"\n", "\n">> \o join(Tail(ms))

parseR1Response(rawResponse) ==
    LET ms == thinkMatches(rawResponse) IN
    [thoughts |-> IF ms = <<>> THEN Undefined ELSE join(ms),
     content  |-> Trim(removeThink(rawResponse))]

(***************************************************************************)
(* SpecParse: parseR1Response called on a buffer, and called again on the  *)
(* same buffer.  The buffer is any text of at most MaxBuffer symbols over  *)
(* the two tags, a blank and a letter.                                     *)
(***************************************************************************)
BufferSymbols == {"<think>", "</think>", " ", "a"}

\* const { thoughts, content } = parseR1Response(streamedContent)
Parse ==
    /\ parsing.calls < 2
    /\ parsing' = [parsing EXCEPT !.calls = @ + 1,
                                  !.result = parseR1Response(parsing.rawResponse)]
    /\ UNCHANGED <<treeVars, streamVars, sessionVars, walk>>

(***************************************************************************)
(* SpecStream: one upstream response, cut into chunks at arbitrary bytes   *)
(***************************************************************************)
RECURSIVE SeqsUpTo(_, _)
SeqsUpTo(S, n) ==
    IF n = 0 THEN {<<>>}
    ELSE LET shorter == SeqsUpTo(S, n - 1)
         IN  shorter \cup {Append(q, x) : q \in {r \in shorter : Len(r) = n - 1}, x \in S}

NoOp ==
    [op |-> "none", id |-> 0, payload |-> <<>>, sources |-> <<>>,
     before |-> <<>>, args |-> <<>>, inflight |-> {}]

\* No call of getAncestralContext is in progress
WalkIdle == walk = [pc |-> "idle", currentId |-> 0, chain |-> <<>>]

\* parseR1Response has not been called
ParseIdle == parsing = [rawResponse |-> <<>>, calls |-> 0, result |-> <<>>]

\* The session list is not part of the run: one session, nothing stored
SessionsIdle ==
    /\ stored = [kind |-> "none"]
    /\ sessions = <<>>
    /\ activeSessionId = 0
    /\ isHydrated = TRUE

TreeIdle ==
    /\ threads = <<>>
    /\ activeThreadId = 0
    /\ idCounter = [thread |-> 0, message |-> 0]
    /\ requests = {}
    /\ isLoading = FALSE
    /\ abortControllerRef = 0
    /\ lastOp = NoOp
    /\ WalkIdle
    /\ SessionsIdle
    /\ ParseIdle

InitStream ==
    /\ events \in SeqsUpTo(Events, MaxEvents)
    /\ terminated \in BOOLEAN
    /\ (events = <<>> => terminated)
    /\ rest = upstreamBytes(events, terminated)
    /\ st = initialStream
    /\ spc = "open"
    /\ midCut = FALSE
    /\ TreeIdle

\* The upstream delivers the next n bytes as one chunk
Transform ==
    /\ spc = "open"
    /\ rest # <<>>
    /\ \E n \in 1..Len(rest) :
          /\ st' = transform(st, Take(rest, n))
          /\ rest' = Drop(rest, n)
    /\ midCut' = (midCut \/ (rest' # <<>> /\ (st'.buffer # <<>> \/ st'.decoder # <<>>)))
    /\ UNCHANGED <<events, terminated, spc>>
    /\ UNCHANGED <<treeVars, walk, sessionVars, parsing>>

\* The upstream closes
Flush ==
    /\ spc = "open"
    /\ rest = <<>>
    /\ st' = flush(st)
    /\ spc' = "closed"
    /\ UNCHANGED <<events, terminated, rest, midCut>>
    /\ UNCHANGED <<treeVars, walk, sessionVars, parsing>>

NextStream == Transform \/ Flush

SpecStream == InitStream /\ [][NextStream]_vars

(***************************************************************************)
(* SpecMalformed: an upstream response in which records that carry no      *)
(* delta stand among the others                                            *)
(***************************************************************************)
MixedEvents ==
    {chunkEvent(<<"p">>, <<>>, FALSE), chunkEvent(<<>>, <<"a">>, FALSE),
     chunkEvent(<<>>, <<>>, TRUE), [type |-> "done"]}
    \cup MalformedEvents

InitMalformed ==
    /\ events \in SeqsUpTo(MixedEvents, MaxEvents)
    /\ terminated \in BOOLEAN
    /\ (events = <<>> => terminated)
    /\ rest = upstreamBytes(events, terminated)
    /\ st = initialStream
    /\ spc = "open"
    /\ midCut = FALSE
    /\ TreeIdle

SpecMalformed == InitMalformed /\ [][NextStream]_vars

(***************************************************************************)
(* Properties of the reassembler                                           *)
(***************************************************************************)
\* The text the consumer reads from the output stream
outText == decodeComplete(st.out)

input == upstreamBytes(events, terminated)

isChunk(e) == e.type = "chunk"

isReasoningDelta(e) == isChunk(e) /\ e.choice.reasoning_content # <<>>

isAnswerDelta(e) == isChunk(e) /\ e.choice.content # <<>>

isReasoningOnly(e) == isReasoningDelta(e) /\ ~isAnswerDelta(e) /\ ~e.choice.finish_reason

isAnswerOnly(e) == isAnswerDelta(e) /\ ~isReasoningDelta(e)

\* A finish signal without a delta, or the end-of-stream marker
isEndSignal(e) ==
    \/ e.type = "done"
    \/ isChunk(e) /\ ~isReasoningDelta(e) /\ ~isAnswerDelta(e) /\ e.choice.finish_reason

RECURSIVE reasoningOf(_)
reasoningOf(es) ==
    IF es = <<>> THEN <<>>
    ELSE (IF isChunk(Head(es)) THEN Head(es).choice.reasoning_content ELSE <<>>)
         \o reasoningOf(Tail(es))

RECURSIVE answerOf(_)
answerOf(es) ==
    IF es = <<>> THEN <<>>
    ELSE (IF isChunk(Head(es)) THEN Head(es).choice.content ELSE <<>>)
         \o answerOf(Tail(es))

ReasoningChars == {"p", "é"}

AnswerChars == {"a"}

\* C1: however the upstream bytes are cut into chunks, the output of
\* transform on each chunk followed by flush equals the output of the whole
\* byte sequence delivered as one chunk.
C1_ChunkingInvariance ==
    spc = "closed" => st.out = flush(transform(initialStream, input)).out

\* C1 witness: a response with reasoning and answer text was delivered with
\* a cut inside a record and has been flushed.
C1_Witness ==
    /\ spc = "closed"
    /\ midCut
    /\ Len(events) >= 2
    /\ Count(outText, "<think>") = 1
    /\ \E i \in 1..Len(outText) : outText[i] \in AnswerChars

\* C2 (as claimed): a response with a reasoning delta yields exactly one
\* opening and one closing delimiter, the closing one after the opening one;
\* a response without a reasoning delta yields no delimiter.
C2_Claimed ==
    spc = "closed" =>
        IF \E i \in 1..Len(events) : isReasoningDelta(events[i])
        THEN /\ Count(outText, "<think>") = 1
             /\ Count(outText, "</think>") = 1
             /\ FirstIndex(outText, "<think>") < FirstIndex(outText, "</think>")
        ELSE /\ Count(outText, "<think>") = 0
             /\ Count(outText, "</think>") = 0

\* The response is reasoning deltas r1..rn, then answer deltas a1..am, then
\* end signals, every delta in a line-terminated record.
reasoningThenAnswer(n, m) ==
    /\ n >= 1 /\ m >= 1 /\ n + m <= Len(events)
    /\ \A i \in 1..n : isReasoningOnly(events[i])
    /\ \A i \in (n + 1)..(n + m) : isAnswerOnly(events[i])
    /\ \A i \in (n + m + 1)..Len(events) : isEndSignal(events[i])
    /\ (terminated \/ n + m < Len(events))

reasoningOnlyResponse ==
    \E n \in 1..Len(events) :
        /\ n < Len(events)
        /\ \A i \in 1..n : isReasoningOnly(events[i])
        /\ \A i \in (n + 1)..Len(events) : isEndSignal(events[i])

\* C8 (as claimed): a reasoning-only response that ends gives exactly
\* <open> reasoning <close>, which parses to thoughts = the reasoning text
\* and an empty content.
C8_Claimed ==
    (spc = "closed" /\ reasoningOnlyResponse) =>
        /\ \/ outText = OpenTag \o reasoningOf(events) \o CloseTag
           \/ outText = OpenTag \o reasoningOf(events) \o CloseTagDone
        /\ parseR1Response(outText).thoughts = Trim(reasoningOf(events))
        /\ parseR1Response(outText).content = <<>>

\* C9 (as claimed): answer text emitted after the opening delimiter has
\* exactly one closing delimiter before it.
C9_Claimed ==
    \A i \in 1..Len(outText) :
        (outText[i] \in AnswerChars /\ \E j \in 1..(i - 1) : outText[j] = "<think>")
            => Count(Take(outText, i - 1), "</think>") = 1

\* C10 (as claimed): every reasoning character of the output lies after the
\* opening delimiter and before any closing delimiter.
C10_Claimed ==
    \A i \in 1..Len(outText) :
        outText[i] \in ReasoningChars
            => /\ \E j \in 1..(i - 1) : outText[j] = "<think>"
               /\ \A j \in 1..(i - 1) : outText[j] # "</think>"

(***************************************************************************)
(* Conversation tree (canvas context).  session.threads is a Map: a        *)
(* sequence of ThreadNode records in insertion order.  Thread ids and      *)
(* message ids are positive numbers; Null is null, EmptyId is "".          *)
(***************************************************************************)
Null == 0

EmptyId == -1

\* JavaScript truthiness of an id-valued field
Truthy(x) == x # Null /\ x # EmptyId

\* threadsMap.has(id)
has(map, id) == \E i \in 1..Len(map) : map[i].id = id

\* threadsMap.get(id), for an id the map has
get(map, id) == map[CHOOSE i \in 1..Len(map) : map[i].id = id]

\* updated.set(id, thread): in place for a present key, appended otherwise
set(map, id, thread) ==
    IF has(map, id)
    THEN [i \in 1..Len(map) |-> IF map[i].id = id THEN thread ELSE map[i]]
    ELSE Append(map, thread)

keys(map) == [i \in 1..Len(map) |-> map[i].id]

\* for (const deleteId of idsToDelete) updated.delete(deleteId)
deleteAll(map, ids) ==
    LET kept(t) == t.id \notin ids IN SelectSeq(map, kept)

WelcomeContent == <<"Welcome">>

WelcomeThoughts == <<"opened">>

\* The branch welcome text; its first character is the herb emoji U+1F33F
BranchWelcomeContent == <<"U+1F33F", "Branching">>

BranchWelcomeThoughts == <<"branch">>

\* message.role === "assistant" && message.content.startsWith(<U+1F33F>)
isBranchWelcome(m) ==
    m.role = "assistant" /\ m.content # <<>> /\ m.content[1] = "U+1F33F"

\* { role: message.role, content: message.content }
apiMessage(m) == [role |-> m.role, content |-> m.content]

apiMessages(ms) == [i \in 1..Len(ms) |-> apiMessage(ms[i])]

\* A root thread whose fork message is the empty id
createWelcomeThreadEmpty(threadId, messageId) ==
    [id |-> threadId,
     messages |-> <<[id |-> messageId, role |-> "assistant",
                     content |-> WelcomeContent, thoughts |-> WelcomeThoughts]>>,
     parentId |-> Null,
     parentMessageId |-> EmptyId]

\* createWelcomeThread / createSessionWelcomeThread
createWelcomeThread(threadId, messageId) ==
    [id |-> threadId,
     messages |-> <<[id |-> messageId, role |-> "assistant",
                     content |-> WelcomeContent, thoughts |-> WelcomeThoughts]>>,
     parentId |-> Null,
     parentMessageId |-> Null]

(***************************************************************************)
(* getAncestralContext                                                     *)
(***************************************************************************)
isOther(t, threadId) == t.id # threadId

\* ancestorChain that takes every other thread of the map for an ancestor
ancestorChainWholeMap(threadId, threadsMap) ==
    LET other(t) == isOther(t, threadId) IN SelectSeq(threadsMap, other)

\* while (currentThread?.parentId) { ... ancestorChain.unshift(parentThread) }
RECURSIVE ancestorChain(_, _)
ancestorChain(threadId, threadsMap) ==
    IF ~has(threadsMap, threadId) THEN <<>>
    ELSE LET currentThread == get(threadsMap, threadId) IN
         IF Truthy(currentThread.parentId) /\ has(threadsMap, currentThread.parentId)
         THEN Append(ancestorChain(currentThread.parentId, threadsMap),
                     get(threadsMap, currentThread.parentId))
         ELSE <<>>

\* The inner `while (checkThread)` loop: from checkThread, step to the
\* first thread of the map whose parentId is checkThread.id, until the
\* target is met or there is no such thread.
RECURSIVE leadsTo(_, _, _)
leadsTo(checkThread, threadId, threadsMap) ==
    IF checkThread.id = threadId THEN TRUE
    ELSE IF \E i \in 1..Len(threadsMap) : threadsMap[i].parentId = checkThread.id
         THEN LET i == CHOOSE k \in 1..Len(threadsMap) :
                          /\ threadsMap[k].parentId = checkThread.id
                          /\ \A j \in 1..(k - 1) :
                                threadsMap[j].parentId # checkThread.id
              IN  leadsTo(threadsMap[i], threadId, threadsMap)
         ELSE FALSE

\* The `for (const [, thread] of threadsMap)` loop that finds the fork
\* point of ancestorThread on the way to threadId
RECURSIVE findForkPoint(_, _, _, _, _)
findForkPoint(i, parentMessageId, ancestorThread, threadId, threadsMap) ==
    IF i > Len(threadsMap) THEN parentMessageId
    ELSE LET thread == threadsMap[i] IN
         IF thread.parentId = ancestorThread.id
         THEN LET found == IF leadsTo(thread, threadId, threadsMap)
                           THEN thread.parentMessageId
                           ELSE parentMessageId
              IN  IF Truthy(found) THEN found
                  ELSE findForkPoint(i + 1, found, ancestorThread, threadId, threadsMap)
         ELSE findForkPoint(i + 1, parentMessageId, ancestorThread, threadId, threadsMap)

\* collectMessages without the break at the fork message
RECURSIVE collectMessagesNoStop(_, _)
collectMessagesNoStop(messages, parentMessageId) ==
    IF messages = <<>> THEN <<>>
    ELSE IF isBranchWelcome(Head(messages))
         THEN collectMessagesNoStop(Tail(messages), parentMessageId)
         ELSE <<Head(messages)>> \o collectMessagesNoStop(Tail(messages), parentMessageId)

\* The `for (const message of ancestorThread.messages)` loop
RECURSIVE collectMessages(_, _)
collectMessages(messages, parentMessageId) ==
    IF messages = <<>> THEN <<>>
    ELSE LET message == Head(messages) IN
         IF isBranchWelcome(message)
         THEN collectMessages(Tail(messages), parentMessageId)
         ELSE IF Truthy(parentMessageId) /\ message.id = parentMessageId
              THEN <<message>>
              ELSE <<message>> \o collectMessages(Tail(messages), parentMessageId)

\* The messages getAncestralContext selects, root first
RECURSIVE collectChain(_, _, _)
collectChain(chain, threadId, threadsMap) ==
    IF chain = <<>> THEN <<>>
    ELSE collectMessages(Head(chain).messages,
                         findForkPoint(1, Null, Head(chain), threadId, threadsMap))
         \o collectChain(Tail(chain), threadId, threadsMap)

ancestralMessages(threadId, threadsMap) ==
    collectChain(ancestorChain(threadId, threadsMap), threadId, threadsMap)

getAncestralContext(threadId, threadsMap) ==
    apiMessages(ancestralMessages(threadId, threadsMap))

(***************************************************************************)
(* Model requests.  A request is identified by the assistantMessageId its  *)
(* caller generated; the route answers with one response text, which the   *)
(* reader receives whole (ResponseChunks) or cut in two                    *)
(* (ResponseChunksSplit), and the fallback is MockResponse.                *)
(***************************************************************************)
ResponseChunks ==
    << <<"<think>", "\n", "p", "\n", "</think>", "\n", "\n", "a">> >>

ResponseChunksSplit ==
    << <<"<think>", "\n", "p">>, <<"\n", "</think>", "\n", "\n", "a">> >>

\* The chunks reader.read() returns when the body arrives in n pieces
delivery == <<ResponseChunks, ResponseChunksSplit>>

MockResponse == <<"<think>", "\n", "m", "\n", "</think>", "\n", "M">>

UserContent == <<"q">>

\* The prompt without the quoted excerpt
formattedQueryBare == <<"prompt">>

\* `> ${selectedContext}\n\n${userQuery}`
formattedQuery == <<">", " ", "excerpt", "\n", "\n", "prompt">>

\* Only the chunk just read, as if the text were not accumulated
streamedContentChunk(n, k) == delivery[n][k]

\* streamedContent after k chunks of a body that arrives in n pieces
streamedContent(n, k) == Flatten(Take(delivery[n], k))

\* parseR1Response(streamedContent) after each chunk of the response
parsedAfter ==
    [n \in 1..Len(delivery) |->
        [k \in 1..n |-> parseR1Response(streamedContent(n, k))]]

\* parseR1Response(mockResponse)
fallbackParsed == parseR1Response(MockResponse)

newMessage(id, role, content, thoughts) ==
    [id |-> id, role |-> role, content |-> content, thoughts |-> thoughts]

messageIds(ms) == [i \in 1..Len(ms) |-> ms[i].id]

\* A map that changes no message
mapMessageNone(messages, id, content, thoughts) == messages

\* An update that adds a message in place of changing the one it is for
mapMessageAppend(messages, id, content, thoughts) ==
    Append(messages, newMessage(id, "assistant", content, thoughts))

\* thread.messages.map(m => m.id === id ? { ...m, content, thoughts } : m)
mapMessage(messages, id, content, thoughts) ==
    [i \in 1..Len(messages) |->
        IF messages[i].id = id
        THEN [messages[i] EXCEPT !.content = content, !.thoughts = thoughts]
        ELSE messages[i]]

\* (currentThread?.messages || []).filter(m => !branch welcome)
RECURSIVE withoutBranchWelcome(_)
withoutBranchWelcome(messages) ==
    IF messages = <<>> THEN <<>>
    ELSE IF isBranchWelcome(Head(messages))
         THEN withoutBranchWelcome(Tail(messages))
         ELSE <<Head(messages)>> \o withoutBranchWelcome(Tail(messages))

\* createBranchWithQuery: the parent's messages up to the branch point
RECURSIVE parentMessagesUpTo(_, _)
parentMessagesUpTo(messages, contextMessageId) ==
    IF messages = <<>> THEN <<>>
    ELSE LET message == Head(messages) IN
         IF isBranchWelcome(message)
         THEN parentMessagesUpTo(Tail(messages), contextMessageId)
         ELSE IF message.id = contextMessageId
              THEN <<message>>
              ELSE <<message>> \o parentMessagesUpTo(Tail(messages), contextMessageId)

\* collectDescendants without the recursive call: direct children only
collectDescendantsDirect(map, threadId) ==
    {threadId} \cup {map[i].id : i \in {k \in 1..Len(map) : map[k].parentId = threadId}}

\* deleteThread: collectDescendants(threadId)
RECURSIVE collectDescendants(_, _)
collectDescendants(map, threadId) ==
    {threadId} \cup
    UNION {collectDescendants(map, map[i].id) :
              i \in {k \in 1..Len(map) : map[k].parentId = threadId}}

(***************************************************************************)
(* Spec: one hydrated session                                              *)
(***************************************************************************)
StreamIdle ==
    /\ events = <<>>
    /\ terminated = TRUE
    /\ rest = <<>>
    /\ st = initialStream
    /\ spc = "idle"
    /\ midCut = FALSE

\* initializeSessions with no stored data: createDefaultSession()
Init ==
    /\ threads = <<createWelcomeThread(1, 1)>>
    /\ activeThreadId = 1
    /\ idCounter = [thread |-> 1, message |-> 1]
    /\ requests = {}
    /\ isLoading = FALSE
    /\ abortControllerRef = Null
    /\ lastOp = NoOp
    /\ WalkIdle
    /\ SessionsIdle
    /\ ParseIdle
    /\ StreamIdle

setActiveThread(id) ==
    /\ has(threads, id)
    /\ id # activeThreadId
    /\ activeThreadId' = id
    /\ lastOp' = NoOp
    /\ UNCHANGED <<threads, idCounter, requests, isLoading, abortControllerRef>>
    /\ UNCHANGED <<streamVars, walk, sessionVars, parsing>>

createBranch(parentId, contextMessageId) ==
    /\ has(threads, parentId)
    /\ LET newId == idCounter.thread + 1
           branchWelcome == newMessage(idCounter.message + 1, "assistant",
                                       BranchWelcomeContent, BranchWelcomeThoughts)
           newThread == [id |-> newId,
                         messages |-> <<branchWelcome>>,
                         parentId |-> parentId,
                         parentMessageId |-> contextMessageId]
       IN  /\ threads' = set(threads, newId, newThread)
           /\ activeThreadId' = newId
           /\ idCounter' = [thread |-> newId, message |-> idCounter.message + 1]
           /\ lastOp' = NoOp
    /\ UNCHANGED <<requests, isLoading, abortControllerRef>>
    /\ UNCHANGED <<streamVars, walk, sessionVars, parsing>>

createBranchWithQuery(parentId, contextMessageId) ==
    /\ has(threads, parentId)
    /\ LET parentThread == get(threads, parentId)
           newThreadId == idCounter.thread + 1
           userMessage == newMessage(idCounter.message + 1, "user",
                                     formattedQuery, Undefined)
           assistantMessageId == idCounter.message + 2
           newThread == [id |-> newThreadId,
                         messages |-> <<userMessage>>,
                         parentId |-> parentId,
                         parentMessageId |-> contextMessageId]
           selected == ancestralMessages(parentId, threads)
                       \o parentMessagesUpTo(parentThread.messages, contextMessageId)
           apiPayload == getAncestralContext(parentId, threads)
                         \o apiMessages(parentMessagesUpTo(parentThread.messages,
                                                           contextMessageId))
                         \o <<[role |-> "user", content |-> formattedQuery]>>
       IN  /\ threads' = set(threads, newThreadId, newThread)
           /\ activeThreadId' = newThreadId
           /\ idCounter' = [thread |-> newThreadId, message |-> assistantMessageId]
           /\ requests' = requests \cup
                  {[id |-> assistantMessageId, threadId |-> newThreadId,
                    kind |-> "branch", phase |-> "fetch", chunks |-> 0,
                    received |-> 0]}
           /\ lastOp' = [NoOp EXCEPT
                         !.op = "createBranchWithQuery", !.id = newThreadId,
                         !.payload = apiPayload,
                         !.sources = Append(messageIds(selected), userMessage.id),
                         !.args = <<parentId, contextMessageId>>]
    /\ isLoading' = TRUE
    /\ UNCHANGED abortControllerRef
    /\ UNCHANGED <<streamVars, walk, sessionVars, parsing>>

sendMessage ==
    /\ has(threads, activeThreadId)
    /\ LET activeThread == get(threads, activeThreadId)
           userMessage == newMessage(idCounter.message + 1, "user",
                                     UserContent, Undefined)
           assistantMessageId == idCounter.message + 2
           currentThreadMessages == withoutBranchWelcome(activeThread.messages)
           selected == ancestralMessages(activeThreadId, threads)
                       \o currentThreadMessages
           allMessages == getAncestralContext(activeThreadId, threads)
                          \o apiMessages(currentThreadMessages)
                          \o <<apiMessage(userMessage)>>
       IN  /\ threads' = set(threads, activeThreadId,
                             [activeThread EXCEPT !.messages = Append(@, userMessage)])
           /\ idCounter' = [idCounter EXCEPT !.message = assistantMessageId]
           /\ abortControllerRef' = assistantMessageId
           /\ requests' = requests \cup
                  {[id |-> assistantMessageId, threadId |-> activeThreadId,
                    kind |-> "send", phase |-> "fetch", chunks |-> 0,
                    received |-> 0]}
           /\ lastOp' = [NoOp EXCEPT
                         !.op = "sendMessage", !.id = activeThreadId,
                         !.payload = allMessages,
                         !.sources = Append(messageIds(selected), userMessage.id)]
    /\ isLoading' = TRUE
    /\ UNCHANGED activeThreadId
    /\ UNCHANGED <<streamVars, walk, sessionVars, parsing>>

\* The thread ids from id up to its root, following parentId
RECURSIVE pathToRoot(_, _)
pathToRoot(map, id) ==
    IF has(map, id)
    THEN LET parentId == get(map, id).parentId
         IN  IF Truthy(parentId) THEN {id} \cup pathToRoot(map, parentId) ELSE {id}
    ELSE {id}

\* The threads of map that have id on their path to the root
subtree(map, id) ==
    {map[i].id : i \in {k \in 1..Len(map) : id \in pathToRoot(map, map[k].id)}}

\* What lastOp keeps of the threads map a deleteThread call found: the
\* threads it is about to delete with their place in the tree and without
\* their messages, the other threads as they were
snapshot(map, toDelete) ==
    [i \in 1..Len(map) |->
        IF map[i].id \in toDelete
        THEN [map[i] EXCEPT !.messages = <<>>, !.parentMessageId = Null]
        ELSE map[i]]

deleteThread(id) ==
    /\ has(threads, id)
    /\ LET toDelete == collectDescendants(threads, id)
           updated == deleteAll(threads, toDelete)
           fresh == activeThreadId = id /\ updated = <<>>
       IN  /\ fresh => (idCounter.thread < MaxThreads /\ idCounter.message < MaxMessages)
           /\ threads' = IF fresh
                         THEN <<createWelcomeThread(idCounter.thread + 1,
                                                    idCounter.message + 1)>>
                         ELSE updated
           /\ activeThreadId' = IF activeThreadId # id THEN activeThreadId
                                ELSE IF updated # <<>> THEN keys(updated)[1]
                                ELSE idCounter.thread + 1
           /\ idCounter' = IF fresh
                           THEN [thread |-> idCounter.thread + 1,
                                 message |-> idCounter.message + 1]
                           ELSE idCounter
           /\ lastOp' = [NoOp EXCEPT !.op = "deleteThread", !.id = id,
                                     !.before = snapshot(threads, toDelete)]
    /\ UNCHANGED <<requests, isLoading, abortControllerRef>>
    /\ UNCHANGED <<streamVars, walk, sessionVars, parsing>>

\* The request leaves the in-flight set; the tail of its handler runs
\* (sendMessage: abortControllerRef.current = null; both: setIsLoading(false))
settle(r) ==
    /\ requests' = requests \ {r}
    /\ isLoading' = FALSE
    /\ abortControllerRef' = IF r.kind = "send" THEN Null ELSE abortControllerRef

\* FetchOk without the `if (thread)` test: a thread that is gone is set
\* again, with the placeholder for its only message
FetchOkAnyway(r, n) ==
    /\ r \in requests
    /\ r.phase = "fetch"
    /\ threads' =
          IF has(threads, r.threadId)
          THEN LET thread == get(threads, r.threadId) IN
               set(threads, r.threadId,
                   [thread EXCEPT !.messages =
                       Append(@, newMessage(r.id, "assistant", <<>>, Undefined))])
          ELSE Append(threads,
                      [createWelcomeThread(r.threadId, r.id) EXCEPT
                          !.messages = <<newMessage(r.id, "assistant", <<>>, Undefined)>>])
    /\ requests' = (requests \ {r}) \cup {[r EXCEPT !.phase = "stream", !.chunks = n]}
    /\ UNCHANGED <<activeThreadId, idCounter, isLoading, abortControllerRef>>
    /\ UNCHANGED <<streamVars, walk, sessionVars, parsing>>

\* fetch resolved with an ok response and a body that will arrive in n
\* chunks: the empty assistant message is appended to the target thread, if
\* the thread is still there
FetchOk(r, n) ==
    /\ r \in requests
    /\ r.phase = "fetch"
    /\ threads' =
          IF has(threads, r.threadId)
          THEN LET thread == get(threads, r.threadId) IN
               set(threads, r.threadId,
                   [thread EXCEPT !.messages =
                       Append(@, newMessage(r.id, "assistant", <<>>, Undefined))])
          ELSE threads
    /\ requests' = (requests \ {r}) \cup {[r EXCEPT !.phase = "stream", !.chunks = n]}
    /\ UNCHANGED <<activeThreadId, idCounter, isLoading, abortControllerRef>>
    /\ UNCHANGED <<streamVars, walk, sessionVars, parsing>>

\* reader.read() returned a chunk: the message is set to the parse of the
\* text streamed so far
StreamChunk(r) ==
    /\ r \in requests
    /\ r.phase = "stream"
    /\ r.received < r.chunks
    /\ LET parsed == parsedAfter[r.chunks][r.received + 1] IN
       threads' =
          IF has(threads, r.threadId)
          THEN LET thread == get(threads, r.threadId) IN
               set(threads, r.threadId,
                   [thread EXCEPT !.messages =
                       mapMessage(@, r.id, parsed.content, parsed.thoughts)])
          ELSE threads
    /\ requests' = (requests \ {r}) \cup {[r EXCEPT !.received = @ + 1]}
    /\ UNCHANGED <<activeThreadId, idCounter, isLoading, abortControllerRef>>
    /\ UNCHANGED <<streamVars, walk, sessionVars, parsing>>

\* reader.read() returned done
StreamDone(r) ==
    /\ r \in requests
    /\ r.phase = "stream"
    /\ r.received = r.chunks
    /\ settle(r)
    /\ UNCHANGED <<threads, activeThreadId, idCounter>>
    /\ UNCHANGED <<streamVars, walk, sessionVars, parsing>>

\* The catch block for an error that is not an abort: the mock response
\* replaces the placeholder, or is appended when there is none
RequestFail(r) ==
    /\ r \in requests
    /\ LET parsed == fallbackParsed IN
       threads' =
          IF has(threads, r.threadId)
          THEN LET thread == get(threads, r.threadId)
                   hasPlaceholder ==
                       \E i \in 1..Len(thread.messages) : thread.messages[i].id = r.id
               IN  set(threads, r.threadId,
                       [thread EXCEPT !.messages =
                           IF hasPlaceholder
                           THEN mapMessage(@, r.id, parsed.content, parsed.thoughts)
                           ELSE Append(@, newMessage(r.id, "assistant",
                                                     parsed.content, parsed.thoughts))])
          ELSE threads
    /\ settle(r)
    /\ UNCHANGED <<activeThreadId, idCounter>>
    /\ UNCHANGED <<streamVars, walk, sessionVars, parsing>>

\* stopGeneration: if there is a current controller it is aborted, and the
\* request that owns its signal ends in the AbortError branch of its catch
\* block; without a current controller the call does nothing
stopGeneration ==
    /\ IF abortControllerRef # Null
       THEN /\ requests' = {r \in requests : r.id # abortControllerRef}
            /\ abortControllerRef' = Null
            /\ isLoading' = FALSE
       ELSE UNCHANGED <<requests, abortControllerRef, isLoading>>
    /\ UNCHANGED <<threads, activeThreadId, idCounter>>
    /\ UNCHANGED <<streamVars, walk, sessionVars, parsing>>

contextMessageIds(parentId) ==
    IF has(threads, parentId)
    THEN {get(threads, parentId).messages[i].id :
             i \in 1..Len(get(threads, parentId).messages)} \cup {EmptyId}
    ELSE {EmptyId}

threadIds == {threads[i].id : i \in 1..Len(threads)}

\* <ChatInput onSend={handleSend} disabled={isLoading} />: while isLoading
\* the input is disabled and its button calls stopGeneration instead
ChatInputEnabled == ~isLoading

\* onClick={isLoading ? stopGeneration : handleSend}
StopButtonShown == isLoading

\* The run generates at most MaxThreads thread ids and MaxMessages message
\* ids: a call that needs t thread ids and m message ids has room for them
roomFor(t, m) ==
    /\ idCounter.thread + t <= MaxThreads
    /\ idCounter.message + m <= MaxMessages

Next ==
    \/ \E id \in threadIds : setActiveThread(id)
    \/ /\ roomFor(1, 1)
       /\ \E parentId \in threadIds : \E contextMessageId \in contextMessageIds(parentId) :
             createBranch(parentId, contextMessageId)
    \/ /\ roomFor(1, 2)
       /\ \E parentId \in threadIds : \E contextMessageId \in contextMessageIds(parentId) :
             createBranchWithQuery(parentId, contextMessageId)
    \/ roomFor(0, 2) /\ ChatInputEnabled /\ sendMessage
    \/ \E id \in threadIds : deleteThread(id)
    \/ StopButtonShown /\ stopGeneration /\ lastOp' = NoOp
    \/ \E r \in requests : FetchOk(r, 1) /\ lastOp' = NoOp
    \/ \E r \in requests : StreamChunk(r) /\ lastOp' = NoOp
    \/ \E r \in requests : StreamDone(r) /\ lastOp' = NoOp
    \/ \E r \in requests : RequestFail(r) /\ lastOp' = NoOp

Spec == Init /\ [][Next]_vars

(***************************************************************************)
(* SpecRequests: the model requests of one session.  The same session, the *)
(* calls that start, feed, end and cancel requests, a body that arrives in *)
(* two chunks, and lastOp keeps the step just taken and the requests it    *)
(* concerned.                                                              *)
(***************************************************************************)
\* Every request takes two message ids, and nothing else takes one here
started == (idCounter.message - 1) \div 2

\* The mark of a step of the requests rs: the threads map it started from
step(op, rs) == [NoOp EXCEPT !.op = op, !.inflight = rs, !.before = threads]

NextRequests ==
    \/ \E id \in threadIds : setActiveThread(id)
    \/ /\ started < MaxRequests
       /\ idCounter.thread < MaxThreads
       /\ \E contextMessageId \in contextMessageIds(activeThreadId) :
             createBranchWithQuery(activeThreadId, contextMessageId)
    \/ started < MaxRequests /\ ChatInputEnabled /\ sendMessage
    \/ StopButtonShown /\ stopGeneration /\ lastOp' = step("stopGeneration", requests)
    \/ \E r \in requests : FetchOk(r, 2) /\ lastOp' = NoOp
    \/ \E r \in requests : StreamChunk(r) /\ lastOp' = step("StreamChunk", {r})
    \/ \E r \in requests : StreamDone(r) /\ lastOp' = step("StreamDone", {r})
    \/ \E r \in requests : RequestFail(r) /\ lastOp' = step("RequestFail", {r})

SpecRequests == Init /\ [][NextRequests]_vars

(***************************************************************************)
(* SpecWalk: the ancestor walk of getAncestralContext, one iteration of    *)
(* its while loop per step, over the threads maps a stored snapshot can    *)
(* restore.  deserializeSession builds the map from the stored entries as  *)
(* they are, so a parentId may name any thread of the map, the thread      *)
(* itself, or no thread at all.                                            *)
(***************************************************************************)
\* A stored thread: a welcome thread but for its parent fields
storedThread(id, parentId) ==
    [createWelcomeThread(id, id) EXCEPT
        !.parentId = parentId,
        !.parentMessageId = IF parentId = Null THEN Null ELSE EmptyId]

\* new Map(data.threads) for n stored threads with the ids 1..n; the id
\* n + 1 names no thread
restoredMaps ==
    UNION {{[i \in 1..n |-> storedThread(i, parents[i])] :
                parents \in [1..n -> {Null} \cup (1..(n + 1))]} :
           n \in 1..MaxThreads}

InitWalk ==
    /\ threads \in restoredMaps
    /\ activeThreadId = 1
    /\ idCounter = [thread |-> Len(threads), message |-> Len(threads)]
    /\ requests = {}
    /\ isLoading = FALSE
    /\ abortControllerRef = Null
    /\ lastOp = NoOp
    /\ WalkIdle
    /\ SessionsIdle
    /\ ParseIdle
    /\ StreamIdle

\* let currentThread = threadsMap.get(threadId)
WalkStart(threadId) ==
    /\ walk.pc = "idle"
    /\ walk' = [pc |-> "walking", currentId |-> threadId, chain |-> <<>>]
    /\ UNCHANGED <<treeVars, streamVars, sessionVars, parsing>>

\* The condition of the loop and of the if in its body:
\* currentThread?.parentId is truthy and threadsMap has that parent
walkGoesOn ==
    /\ has(threads, walk.currentId)
    /\ Truthy(get(threads, walk.currentId).parentId)
    /\ has(threads, get(threads, walk.currentId).parentId)

\* ancestorChain.unshift(parentThread); currentThread = parentThread
WalkStep ==
    /\ walk.pc = "walking"
    /\ walkGoesOn
    /\ LET parentId == get(threads, walk.currentId).parentId
       IN  walk' = [walk EXCEPT
                       !.currentId = parentId,
                       !.chain = IF Len(@) < MaxChain
                                 THEN <<parentId>> \o @
                                 ELSE <<parentId>>]
    /\ UNCHANGED <<treeVars, streamVars, sessionVars, parsing>>

\* The loop is left: the condition is false, or the break is taken
WalkEnd ==
    /\ walk.pc = "walking"
    /\ ~walkGoesOn
    /\ walk' = [walk EXCEPT !.pc = "done"]
    /\ UNCHANGED <<treeVars, streamVars, sessionVars, parsing>>

NextWalk ==
    \/ \E threadId \in threadIds : WalkStart(threadId)
    \/ WalkStep
    \/ WalkEnd

SpecWalk == InitWalk /\ [][NextWalk]_vars

\* The loop runs synchronously: an iteration that can be taken is taken
SpecWalkFair == SpecWalk /\ WF_vars(NextWalk)

(***************************************************************************)
(* SpecDeleting: the conversation tree of Spec, with lastOp keeping, for   *)
(* every step of a request, the request and the threads map the step       *)
(* found.  Threads are deleted while responses stream into them.           *)
(***************************************************************************)
NextDeleting ==
    \/ \E id \in threadIds : setActiveThread(id)
    \/ /\ roomFor(1, 2)
       /\ \E contextMessageId \in contextMessageIds(activeThreadId) :
             createBranchWithQuery(activeThreadId, contextMessageId)
    \/ roomFor(0, 2) /\ ChatInputEnabled /\ has(threads, activeThreadId) /\ sendMessage
    \/ \E id \in threadIds : deleteThread(id)
    \/ \E r \in requests : FetchOk(r, 1) /\ lastOp' = step("FetchOk", {r})
    \/ \E r \in requests : StreamChunk(r) /\ lastOp' = step("StreamChunk", {r})
    \/ \E r \in requests : StreamDone(r) /\ lastOp' = step("StreamDone", {r})
    \/ \E r \in requests : RequestFail(r) /\ lastOp' = step("RequestFail", {r})

SpecDeleting == Init /\ [][NextDeleting]_vars

(***************************************************************************)
(* SpecCalls: the conversation tree of Spec, with the calls whose source   *)
(* thread is not in the map.  Each of createBranch, createBranchWithQuery  *)
(* and sendMessage begins with `if (!thread) return;`: the call ends there *)
(* and its caller gets what a successful call gives, undefined.  lastOp    *)
(* records that return.                                                    *)
(***************************************************************************)
returns(name, id) ==
    /\ ~has(threads, id)
    /\ lastOp' = [NoOp EXCEPT !.op = "return", !.args = <<name, id>>]
    /\ UNCHANGED <<threads, activeThreadId, idCounter, requests, isLoading,
                   abortControllerRef>>
    /\ UNCHANGED <<streamVars, walk, sessionVars, parsing>>

\* const parentThread = threads.get(parentId); if (!parentThread) return;
createBranchReturns(parentId) == returns("createBranch", parentId)

\* const parentThread = threads.get(parentId); if (!parentThread) return;
createBranchWithQueryReturns(parentId) == returns("createBranchWithQuery", parentId)

\* const activeThread = threads.get(activeThreadId); if (!activeThread) return;
sendMessageReturns == returns("sendMessage", activeThreadId)

\* The calls are made for the thread on display, which deleteThread can
\* have removed from the map
NextCalls ==
    \/ Next
    \/ createBranchReturns(activeThreadId)
    \/ createBranchWithQueryReturns(activeThreadId)
    \/ ChatInputEnabled /\ sendMessageReturns

SpecCalls == Init /\ [][NextCalls]_vars

(***************************************************************************)
(* SpecSessions: the session list.  The run starts at mount, with some     *)
(* text under STORAGE_KEY, nothing under the legacy key and no thread in   *)
(* the database; initializeSessions hydrates the list, and the session     *)
(* operations follow.  A session is [id, title, threads, activeThreadId].  *)
(* Thread ids and session ids are generated from a timestamp: the model    *)
(* takes both from idCounter.thread, so a default session and its welcome  *)
(* thread have the same number.                                            *)
(***************************************************************************)
\* An id that names no session and no thread
Absent == -2

\* A stored thread whose messages array is empty
withoutMessages(thread) == [thread EXCEPT !.messages = <<>>]

\* The threads entries a stored session i can hold: none, its root thread,
\* a root thread without messages, a thread whose parent is not stored
storedThreads(i) ==
    { <<>>,
      <<storedThread(i, Null)>>,
      <<withoutMessages(storedThread(i, Null))>>,
      <<storedThread(i, Absent)>> }

storedSession(i) ==
    [id : {i}, title : {"stored"}, threads : storedThreads(i),
     activeThreadId : {i, Absent, EmptyId}]

\* localStorage.getItem(STORAGE_KEY): nothing, text that JSON.parse
\* rejects, an object of another version, or a version 2 object
storedSnapshots ==
    {[kind |-> "none"], [kind |-> "unparseable"], [kind |-> "otherVersion"]}
    \cup UNION {[kind : {"v2"},
                 sessions : {list \in [1..n -> UNION {storedSession(i) : i \in 1..n}] :
                                \A i \in 1..n : list[i].id = i},
                 activeSessionId : (1..n) \cup {Absent, EmptyId}] :
                n \in 0..MaxSessions}

\* deserializeStateV2: null, or the sessions as they are stored, with
\* parsed.activeSessionId || sessions[0]?.id || ""
deserializeStateV2(json) ==
    IF json.kind = "v2"
    THEN [null |-> FALSE,
          sessions |-> json.sessions,
          activeSessionId |->
              IF Truthy(json.activeSessionId) THEN json.activeSessionId
              ELSE IF json.sessions # <<>> THEN json.sessions[1].id
              ELSE EmptyId]
    ELSE [null |-> TRUE]

\* createDefaultSession()
createDefaultSession(id, messageId) ==
    [id |-> id, title |-> "new",
     threads |-> <<createWelcomeThread(id, messageId)>>,
     activeThreadId |-> id]

InitSessions ==
    /\ stored \in storedSnapshots
    /\ sessions = <<>>
    /\ activeSessionId = EmptyId
    /\ isHydrated = FALSE
    /\ threads = <<>>
    /\ activeThreadId = 0
    /\ idCounter = [thread |-> MaxSessions, message |-> MaxSessions]
    /\ requests = {}
    /\ isLoading = FALSE
    /\ abortControllerRef = Null
    /\ lastOp = NoOp
    /\ WalkIdle
    /\ ParseIdle
    /\ StreamIdle

\* A default session is created, with fresh ids
freshSession == createDefaultSession(idCounter.thread + 1, idCounter.message + 1)

tookFresh ==
    idCounter' = [thread |-> idCounter.thread + 1, message |-> idCounter.message + 1]

initializeSessions ==
    /\ ~isHydrated
    /\ LET parsed == deserializeStateV2(stored)
       IN  IF ~parsed.null /\ Len(parsed.sessions) > 0
           THEN /\ sessions' = parsed.sessions
                /\ activeSessionId' = parsed.activeSessionId
                /\ UNCHANGED idCounter
           ELSE /\ sessions' = <<freshSession>>
                /\ activeSessionId' = freshSession.id
                /\ tookFresh
    /\ isHydrated' = TRUE
    /\ lastOp' = [NoOp EXCEPT !.op = "initializeSessions"]
    /\ UNCHANGED <<stored, threads, activeThreadId, requests, isLoading,
                   abortControllerRef, walk, parsing>>
    /\ UNCHANGED streamVars

createSession ==
    /\ isHydrated
    /\ sessions' = Append(sessions, freshSession)
    /\ activeSessionId' = freshSession.id
    /\ tookFresh
    /\ lastOp' = NoOp
    /\ UNCHANGED <<stored, isHydrated, threads, activeThreadId, requests,
                   isLoading, abortControllerRef, walk, parsing>>
    /\ UNCHANGED streamVars

\* sessions.some(s => s.id === sessionId)
someSession(list, sessionId) == \E i \in 1..Len(list) : list[i].id = sessionId

switchSession(sessionId) ==
    /\ isHydrated
    /\ activeSessionId' = IF someSession(sessions, sessionId) THEN sessionId
                          ELSE activeSessionId
    /\ lastOp' = NoOp
    /\ UNCHANGED <<stored, sessions, isHydrated, threads, activeThreadId,
                   idCounter, requests, isLoading, abortControllerRef, walk, parsing>>
    /\ UNCHANGED streamVars

deleteSession(sessionId) ==
    /\ isHydrated
    /\ LET kept(session) == session.id # sessionId
           updated == SelectSeq(sessions, kept)
       IN  IF sessionId = activeSessionId /\ Len(updated) > 0
           THEN /\ sessions' = updated
                /\ activeSessionId' = updated[1].id
                /\ UNCHANGED idCounter
           ELSE IF Len(updated) = 0
           THEN /\ sessions' = <<freshSession>>
                /\ activeSessionId' = freshSession.id
                /\ tookFresh
           ELSE /\ sessions' = updated
                /\ UNCHANGED <<activeSessionId, idCounter>>
    /\ lastOp' = NoOp
    /\ UNCHANGED <<stored, isHydrated, threads, activeThreadId, requests,
                   isLoading, abortControllerRef, walk, parsing>>
    /\ UNCHANGED streamVars

renameSession(sessionId, title) ==
    /\ isHydrated
    /\ sessions' = [i \in 1..Len(sessions) |->
                       IF sessions[i].id = sessionId
                       THEN [sessions[i] EXCEPT !.title = title]
                       ELSE sessions[i]]
    /\ lastOp' = NoOp
    /\ UNCHANGED <<stored, activeSessionId, isHydrated, threads, activeThreadId,
                   idCounter, requests, isLoading, abortControllerRef, walk, parsing>>
    /\ UNCHANGED streamVars

sessionIds == {sessions[i].id : i \in 1..Len(sessions)}

\* sessions.find(s => s.id === activeSessionId) is not undefined
hasCurrentSession == someSession(sessions, activeSessionId)

\* sessions.find(s => s.id === activeSessionId), when there is one
currentSession ==
    sessions[CHOOSE i \in 1..Len(sessions) :
                 /\ sessions[i].id = activeSessionId
                 /\ \A j \in 1..(i - 1) : sessions[j].id # activeSessionId]

\* currentSession?.threads || new Map()
currentThreads == IF hasCurrentSession THEN currentSession.threads ELSE <<>>

\* currentSession?.activeThreadId || ""
currentActiveThreadId ==
    IF hasCurrentSession /\ Truthy(currentSession.activeThreadId)
    THEN currentSession.activeThreadId
    ELSE EmptyId

\* The run creates at most MaxCreated default sessions
roomForSession == idCounter.thread < MaxSessions + MaxCreated

NextSessions ==
    \/ initializeSessions
    \/ roomForSession /\ createSession
    \/ \E sessionId \in sessionIds \cup {Absent} : switchSession(sessionId)
    \/ \E sessionId \in sessionIds :
          (Len(sessions) = 1 => roomForSession) /\ deleteSession(sessionId)
    \/ \E sessionId \in sessionIds : renameSession(sessionId, "renamed")

SpecSessions == InitSessions /\ [][NextSessions]_vars

(***************************************************************************)
(* SpecParse                                                               *)
(***************************************************************************)
InitParse ==
    /\ parsing \in [rawResponse : SeqsUpTo(BufferSymbols, MaxBuffer),
                     calls : {0}, result : {<<>>}]
    /\ threads = <<>>
    /\ activeThreadId = 0
    /\ idCounter = [thread |-> 0, message |-> 0]
    /\ requests = {}
    /\ isLoading = FALSE
    /\ abortControllerRef = 0
    /\ lastOp = NoOp
    /\ WalkIdle
    /\ SessionsIdle
    /\ StreamIdle

NextParse == Parse

SpecParse == InitParse /\ [][NextParse]_vars

(***************************************************************************)
(* Properties of the conversation tree                                     *)
(***************************************************************************)
notBranchWelcome(m) == ~isBranchWelcome(m)

\* The position of the message with this id in ms, 0 when absent
positionOf(ms, id) ==
    IF \E i \in 1..Len(ms) : ms[i].id = id
    THEN CHOOSE i \in 1..Len(ms) : ms[i].id = id
    ELSE 0

\* The thread that holds the message with this id
ownerOf(map, messageId) ==
    CHOOSE t \in {map[i].id : i \in 1..Len(map)} :
        positionOf(get(map, t).messages, messageId) > 0

owned(map, messageId) ==
    \E i \in 1..Len(map) : positionOf(map[i].messages, messageId) > 0

messageOf(map, messageId) ==
    LET ms == get(map, ownerOf(map, messageId)).messages
    IN  ms[positionOf(ms, messageId)]

\* The payload is the role and content of the selected messages, in order
payloadOfSources ==
    /\ Len(lastOp.payload) = Len(lastOp.sources)
    /\ \A i \in 1..Len(lastOp.sources) :
          /\ owned(threads, lastOp.sources[i])
          /\ lastOp.payload[i] = apiMessage(messageOf(threads, lastOp.sources[i]))

\* The active thread F is a fork of a root thread R at message B of R
forkOfRootAt(F, R, B) ==
    /\ F.parentId = R.id
    /\ R.parentId = Null
    /\ F.parentMessageId = B
    /\ positionOf(R.messages, B) > 0

\* C3: the payload sendMessage assembles for a thread F forked from a root
\* thread R at message B is R's messages up to and including B (none of the
\* later ones), then F's own non-welcome messages, then the new user message.
C3_ForkContext ==
    (lastOp.op = "sendMessage" /\ Truthy(get(threads, lastOp.id).parentId)) =>
        LET F == get(threads, lastOp.id)
            R == get(threads, F.parentId)
            B == F.parentMessageId
        IN  forkOfRootAt(F, R, B) =>
               /\ lastOp.sources =
                     messageIds(Take(R.messages, positionOf(R.messages, B)))
                     \o messageIds(SelectSeq(F.messages, notBranchWelcome))
               /\ payloadOfSources

\* C3 witness: R = [A (assistant), B (user), C (assistant)], F forked at B,
\* and a message was sent in F.
C3_Witness ==
    /\ lastOp.op = "sendMessage"
    /\ Truthy(get(threads, lastOp.id).parentId)
    /\ LET F == get(threads, lastOp.id)
           R == get(threads, F.parentId)
       IN  /\ forkOfRootAt(F, R, F.parentMessageId)
           /\ Len(R.messages) = 3
           /\ positionOf(R.messages, F.parentMessageId) = 2
           /\ R.messages[1].role = "assistant"
           /\ R.messages[2].role = "user"
           /\ R.messages[3].role = "assistant"

\* The child of X on the way from X down to T
childToward(map, X, T) ==
    CHOOSE c \in pathToRoot(map, T) : get(map, c).parentId = X

\* C4 (as claimed): for every thread T and every ancestor X of T,
\* getAncestralContext(T) holds of X exactly the non-welcome messages up to
\* and including the fork message recorded on the child of X toward T.
C4_Claimed ==
    \A T \in threadIds : \A X \in pathToRoot(threads, T) \ {T} :
        LET fork == get(threads, childToward(threads, X, T)).parentMessageId
            ms   == get(threads, X).messages
            got  == {m \in {ancestralMessages(T, threads)[i] :
                               i \in 1..Len(ancestralMessages(T, threads))} :
                        positionOf(ms, m.id) > 0}
        IN  positionOf(ms, fork) > 0 =>
               got = {ms[i] : i \in {k \in 1..positionOf(ms, fork) :
                                        notBranchWelcome(ms[k])}}

\* C5: the payload of a send in T, and of a branch created from T, holds
\* only messages of T or of an ancestor of T (and the new user message).
C5_OneWayInheritance ==
    /\ lastOp.op = "sendMessage" =>
          /\ payloadOfSources
          /\ \A i \in 1..Len(lastOp.sources) :
                ownerOf(threads, lastOp.sources[i]) \in pathToRoot(threads, lastOp.id)
    /\ lastOp.op = "createBranchWithQuery" =>
          /\ payloadOfSources
          /\ ownerOf(threads, Last(lastOp.sources)) = lastOp.id
          /\ \A i \in 1..(Len(lastOp.sources) - 1) :
                ownerOf(threads, lastOp.sources[i])
                    \in pathToRoot(threads, get(threads, lastOp.id).parentId)

\* C5 witness: a message was sent in a thread that has a parent and a child
\* holding a user message.
C5_Witness ==
    /\ lastOp.op = "sendMessage"
    /\ Truthy(get(threads, lastOp.id).parentId)
    /\ Len(lastOp.sources) >= 2
    /\ \E i \in 1..Len(threads) :
          /\ threads[i].parentId = lastOp.id
          /\ \E k \in 1..Len(threads[i].messages) :
                threads[i].messages[k].role = "user"

idsOf(map) == {map[i].id : i \in 1..Len(map)}

\* The threads of map whose id is in ids, in map order
restrictTo(map, ids) ==
    LET wanted(t) == t.id \in ids IN SelectSeq(map, wanted)

\* C6: deleteThread(id) removes exactly the thread and its descendants
\* (1 + K threads), leaves the other threads as they were, and leaves no
\* thread whose parentId names a removed thread.
C6_CascadeDelete ==
    lastOp.op = "deleteThread" =>
        LET removed == subtree(lastOp.before, lastOp.id)
            others  == idsOf(lastOp.before) \ removed
            left    == restrictTo(threads, idsOf(lastOp.before))
        IN  /\ idsOf(threads) \cap removed = {}
            /\ \A i \in 1..Len(threads) : threads[i].parentId \notin removed
            /\ left = restrictTo(lastOp.before, others)
            /\ Len(lastOp.before) - Len(left) = Cardinality(removed)

\* C6 witness: a thread with a descendant was deleted and another thread
\* remains.
C6_Witness ==
    /\ lastOp.op = "deleteThread"
    /\ Cardinality(subtree(lastOp.before, lastOp.id)) >= 2
    /\ \E i \in 1..Len(threads) : has(lastOp.before, threads[i].id)

(***************************************************************************)
(* Properties of the model requests                                        *)
(***************************************************************************)
\* What the read loop has written to the message of r so far
written(r) ==
    IF r.received = 0
    THEN [thoughts |-> Undefined, content |-> <<>>]
    ELSE parsedAfter[r.chunks][r.received]

isStreamingSend(r) == r.kind = "send" /\ r.phase = "stream"

\* The thread of r ends with the message of r, holding exactly what was
\* written to it
keepsStreamed(r) ==
    /\ has(threads, r.threadId)
    /\ LET ms == get(threads, r.threadId).messages
       IN  /\ ms # <<>>
           /\ Last(ms).id = r.id
           /\ Last(ms).role = "assistant"
           /\ Last(ms).content = written(r).content
           /\ Last(ms).thoughts = written(r).thoughts

\* A chunk of r that has not arrived yet will still be written
canStillWrite(r) == r.phase = "fetch" \/ r.received < r.chunks

\* C11 (as claimed): after stopGeneration, every sendMessage response that
\* was streaming is over (no later chunk is applied), its thread still ends
\* with its assistant message holding exactly what the last processed chunk
\* produced (no fallback), and isLoading is false.
C11_Claimed ==
    lastOp.op = "stopGeneration" =>
        \A r \in lastOp.inflight :
            isStreamingSend(r) =>
                /\ r \notin requests
                /\ keepsStreamed(r)
                /\ ~isLoading

\* C12 (as claimed): after stopGeneration, no request that was in flight,
\* started by sendMessage or by createBranchWithQuery, still has a chunk to
\* write.
C12_Claimed ==
    lastOp.op = "stopGeneration" =>
        \A r \in lastOp.inflight \cap requests : ~canStillWrite(r)

\* The positions of the messages of ms that have this id
positionsOf(ms, id) == {i \in 1..Len(ms) : ms[i].id = id}

\* C13: when a request fails without having been cancelled and its thread
\* is there, the thread holds the fallback assistant message exactly once,
\* under the id of the request and after the user message it answers; a
\* placeholder that was already added has been replaced by it.
C13_FallbackReply ==
    lastOp.op = "RequestFail" =>
        \A r \in lastOp.inflight :
            has(threads, r.threadId) =>
                LET ms == get(threads, r.threadId).messages
                    at == positionsOf(ms, r.id)
                IN  /\ r \notin requests
                    /\ Cardinality(at) = 1
                    /\ \A i \in at :
                          /\ ms[i].role = "assistant"
                          /\ ms[i].content = parseR1Response(MockResponse).content
                          /\ ms[i].thoughts = parseR1Response(MockResponse).thoughts
                          /\ \E k \in 1..(i - 1) :
                                ms[k].id = r.id - 1 /\ ms[k].role = "user"

\* C13 witness: a request has failed in mid-stream, after its first chunk
\* was written to the placeholder, and another thread holds the fallback
\* reply of an earlier request that failed.
C13_Witness ==
    /\ lastOp.op = "RequestFail"
    /\ \E r \in lastOp.inflight :
          /\ r.phase = "stream" /\ r.received = 1
          /\ has(threads, r.threadId)
          /\ \E t \in threadIds : \E i \in 1..Len(get(threads, t).messages) :
                LET m == get(threads, t).messages[i]
                IN  /\ m.id # r.id
                    /\ m.role = "assistant"
                    /\ m.content = parseR1Response(MockResponse).content
                    /\ t # r.threadId

\* C14: right after createBranchWithQuery(parentId, contextMessageId) the
\* new thread is in the tree with that parent and fork message and exactly
\* one user message (the quoted excerpt, then the prompt), it is the active
\* thread, and its request has not been answered yet.
C14_BranchBeforeResponse ==
    lastOp.op = "createBranchWithQuery" =>
        /\ has(threads, lastOp.id)
        /\ activeThreadId = lastOp.id
        /\ LET thread == get(threads, lastOp.id)
           IN  /\ thread.parentId = lastOp.args[1]
               /\ thread.parentMessageId = lastOp.args[2]
               /\ Len(thread.messages) = 1
               /\ thread.messages[1].role = "user"
               /\ thread.messages[1].content =
                      <<">", " ", "excerpt", "\n", "\n", "prompt">>
        /\ \E r \in requests :
              /\ r.threadId = lastOp.id
              /\ r.kind = "branch"
              /\ r.phase = "fetch"
              /\ r.received = 0

\* C14 witness: a branch with a query was created from a message of a
\* thread that is itself a branch, while another request was in flight.
C14_Witness ==
    /\ lastOp.op = "createBranchWithQuery"
    /\ Truthy(lastOp.args[2])
    /\ has(threads, lastOp.args[1])
    /\ Truthy(get(threads, lastOp.args[1]).parentId)
    /\ Cardinality(requests) >= 2

\* The result of the response streamed alone, in one piece
streamedAlone == parseR1Response(Flatten(ResponseChunks))

\* Since the user message of r was added, no request but r has added a
\* message to ms: the thread of r is not the thread of another stream
isLatestIn(r, ms) ==
    \E k \in 1..Len(ms) :
        /\ ms[k].id = r.id - 1
        /\ \A i \in (k + 1)..Len(ms) : ms[i].id = r.id

tailChange(before, after) ==
    /\ Len(after) >= Len(before)
    /\ \A k \in 1..(Len(before) - 1) : after[k] = before[k]
    /\ before # <<>> =>
          /\ after[Len(before)].id = Last(before).id
          /\ after[Len(before)].role = Last(before).role

\* C16 as claimed: a streaming update or a fallback substitution changes
\* the messages of a thread only at the tail: it appends, or it modifies
\* the last message, and it leaves every message before the last as it was.
C16_Claimed ==
    lastOp.op \in {"StreamChunk", "RequestFail"} =>
        \A i \in 1..Len(lastOp.before) :
            /\ has(threads, lastOp.before[i].id)
            /\ tailChange(lastOp.before[i].messages,
                          get(threads, lastOp.before[i].id).messages)

\* The message of r is in ms and it is not the last one
notLastIn(r, ms) == \E k \in 1..(Len(ms) - 1) : ms[k].id = r.id

\* C17 as claimed: a streaming update whose message is not the last one of
\* its thread is refused, so the threads are what they were before it.
C17_Claimed ==
    lastOp.op = "StreamChunk" =>
        \A r \in lastOp.inflight :
            (/\ has(lastOp.before, r.threadId)
             /\ notLastIn(r, get(lastOp.before, r.threadId).messages))
                => threads = lastOp.before

\* C18: a thread has no parent exactly when it has no fork message; the
\* empty source message id of a branch of a whole thread is not null.
C18_RootIffNoFork ==
    \A i \in 1..Len(threads) :
        (threads[i].parentId = Null) <=> (threads[i].parentMessageId = Null)

\* C18 witness: the tree holds the root, a branch forked at a message and
\* a branch created with the empty source message id.
C18_Witness ==
    /\ \E i \in 1..Len(threads) : threads[i].parentId = Null
    /\ \E i \in 1..Len(threads) :
          threads[i].parentId # Null /\ Truthy(threads[i].parentMessageId)
    /\ \E i \in 1..Len(threads) :
          threads[i].parentId # Null /\ threads[i].parentMessageId = EmptyId

\* C19 as claimed: the parent of every branch is in the tree and the fork
\* message of the branch is a message of that parent.
C19_Claimed ==
    \A i \in 1..Len(threads) :
        threads[i].parentId # Null =>
            /\ has(threads, threads[i].parentId)
            /\ LET ms == get(threads, threads[i].parentId).messages
               IN  \E k \in 1..Len(ms) : ms[k].id = threads[i].parentMessageId

\* C20 as claimed: a walk that has started leaves its loop, whatever the
\* parentId links of the map are.
C20_Claimed == (walk.pc = "walking") ~> (walk.pc = "done")

\* The thread the walk stands on names a parent that the map does not have
parentMissing ==
    /\ has(threads, walk.currentId)
    /\ Truthy(get(threads, walk.currentId).parentId)
    /\ ~has(threads, get(threads, walk.currentId).parentId)

\* C21 as claimed: the walk does not come to its ordinary end, from which
\* the context is built and returned, on a thread whose parent is missing.
C21_Claimed == ~(walk.pc = "done" /\ parentMissing)

\* C22 as claimed: no call of createBranch, createBranchWithQuery or
\* sendMessage whose source thread is missing ends as an ordinary return;
\* it ends with NotFound.
C22_Claimed == lastOp.op # "return"

\* The threads map has a root thread
hasRoot(map) == \E i \in 1..Len(map) : map[i].parentId = Null

\* A stored session that a save of a sound workspace can have written
soundSession(session) ==
    /\ hasRoot(session.threads)
    /\ has(session.threads, session.activeThreadId)
    /\ \A i \in 1..Len(session.threads) :
          /\ session.threads[i].messages # <<>>
          /\ Truthy(session.threads[i].parentId) =>
                has(session.threads, session.threads[i].parentId)

\* A snapshot that a save of a sound workspace can have written
soundSnapshot(json) ==
    /\ json.kind = "v2"
    /\ json.sessions # <<>>
    /\ someSession(json.sessions, json.activeSessionId)
    /\ \A i \in 1..Len(json.sessions) : soundSession(json.sessions[i])

\* C23 as claimed: after initializeSessions the active session is in the
\* list, it has a root thread, its active thread is one of its threads,
\* and a snapshot that is not sound has been replaced by one default
\* session.
C23_Claimed ==
    lastOp.op = "initializeSessions" =>
        /\ hasCurrentSession
        /\ hasRoot(currentThreads)
        /\ has(currentThreads, currentActiveThreadId)
        /\ ~soundSnapshot(stored) =>
              /\ Len(sessions) = 1
              /\ sessions[1] = createDefaultSession(sessions[1].id,
                                                    sessions[1].threads[1].messages[1].id)

\* The complete spans of s and the text outside them, read off in one
\* pass from the left.  Outside a span, an opening tag that has a closing
\* tag somewhere after it opens a span; inside, the next closing tag ends
\* it.  spans collects the trimmed texts, outside what belongs to no span.
RECURSIVE readSpans(_, _, _, _, _, _)
readSpans(s, i, inside, text, spans, outside) ==
    IF i > Len(s) THEN [spans |-> spans, outside |-> outside]
    ELSE IF inside
         THEN IF s[i] = "</think>"
              THEN readSpans(s, i + 1, FALSE, <<>>, Append(spans, Trim(text)), outside)
              ELSE readSpans(s, i + 1, TRUE, Append(text, s[i]), spans, outside)
         ELSE IF s[i] = "<think>" /\ \E j \in (i + 1)..Len(s) : s[j] = "</think>"
              THEN readSpans(s, i + 1, TRUE, <<>>, spans, outside)
              ELSE readSpans(s, i + 1, FALSE, <<>>, spans, Append(outside, s[i]))

spansOf(s) == readSpans(s, 1, FALSE, <<>>, <<>>, <<>>)

\* The texts, with a blank line between one and the next
RECURSIVE blankLineJoined(_, _)
blankLineJoined(texts, k) ==
    IF k = Len(texts) THEN texts[k]
    ELSE texts[k] \o <<"\n", "\n">> \o blankLineJoined(texts, k + 1)

\* C24: what parseR1Response returned for the buffer, on the first call
\* and on the second one, is: thoughts, the trimmed texts of the complete
\* spans joined by a blank line, or undefined when there is no complete
\* span; content, the buffer without those spans, trimmed.
C24_ParseResult ==
    parsing.calls >= 1 =>
        LET read == spansOf(parsing.rawResponse)
        IN  /\ parsing.result.thoughts =
                  IF read.spans = <<>> THEN Undefined
                  ELSE blankLineJoined(read.spans, 1)
            /\ parsing.result.content = Trim(read.outside)

\* C24 witness: the second call has returned, for a buffer with two
\* complete spans, the first of which holds text, and text outside them.
C24_Witness ==
    /\ parsing.calls = 2
    /\ Len(spansOf(parsing.rawResponse).spans) = 2
    /\ spansOf(parsing.rawResponse).spans[1] # <<>>
    /\ parsing.result.content # <<>>

isMalformed(e) == e \in MalformedEvents

wellFormed(e) == ~isMalformed(e)

\* The last record of the response ends with a newline, or carries a delta
\* or an end signal: every record without a delta is line-terminated
malformedTerminated == terminated \/ events = <<>> \/ wellFormed(Last(events))

\* The reassembler after the whole response es, delivered as one chunk
reassembled(es, term) == flush(transform(initialStream, upstreamBytes(es, term)))

\* C25: when the line-terminated records without a delta are taken out of
\* the response, the output after the close and the two flags are the
\* same: such a record enqueues nothing and changes no flag, and the
\* records after it are processed as if it had not been there.
C25_MalformedSkipped ==
    (spc = "closed" /\ malformedTerminated) =>
        LET without == SelectSeq(events, wellFormed)
            expected == reassembled(without, terminated \/ without = <<>>)
        IN  /\ st.out = expected.out
            /\ st.isInReasoningPhase = expected.isInReasoningPhase
            /\ st.hasStartedContent = expected.hasStartedContent
            /\ st.buffer = expected.buffer

\* C25 witness: a response with a reasoning delta, then a record without a
\* delta, then an answer delta, has been delivered with a cut inside a
\* record and closed.
C25_Witness ==
    /\ spc = "closed"
    /\ midCut
    /\ Len(events) = 3
    /\ isReasoningDelta(events[1])
    /\ isMalformed(events[2])
    /\ isAnswerDelta(events[3])
    /\ terminated

\* C26 as claimed: the tree holds a thread, and the active thread id is
\* the id of one of its threads.
C26_Claimed == threads # <<>> /\ has(threads, activeThreadId)

\* C27 as claimed: isLoading is true as long as a request is in flight.
C27_Claimed == requests # {} => isLoading

\* C28: no thread ever holds two messages under one id; and when a request
\* comes to its end without having been cancelled, by completion or by
\* failure, its thread holds exactly one message under the id of the
\* request, an assistant message, and the step that ended the request
\* added it only if the placeholder was not there.
C28_OneReply ==
    /\ \A t \in 1..Len(threads) :
          \A i, k \in 1..Len(threads[t].messages) :
              threads[t].messages[i].id = threads[t].messages[k].id => i = k
    /\ lastOp.op \in {"StreamDone", "RequestFail"} =>
          \A r \in lastOp.inflight :
              (has(threads, r.threadId) /\ has(lastOp.before, r.threadId)) =>
                  LET now == get(threads, r.threadId).messages
                      was == get(lastOp.before, r.threadId).messages
                  IN  /\ Cardinality(positionsOf(now, r.id)) = 1
                      /\ \A i \in positionsOf(now, r.id) : now[i].role = "assistant"
                      /\ Len(now) = Len(was) + (IF positionsOf(was, r.id) = {} THEN 1 ELSE 0)

\* C28 witness: a request has failed before its placeholder was added, in
\* a thread that holds the reply of an earlier request read to its end.
C28_Witness ==
    /\ lastOp.op = "RequestFail"
    /\ \E r \in lastOp.inflight :
          /\ r.phase = "fetch"
          /\ has(threads, r.threadId)
          /\ LET now == get(threads, r.threadId).messages
             IN  \E i \in 1..Len(now) :
                    /\ now[i].id < r.id
                    /\ now[i].role = "assistant"
                    /\ now[i].content = streamedAlone.content
                    /\ now[i].thoughts = streamedAlone.thoughts

\* C29 as claimed: once the workspace is hydrated the session list is not
\* empty and the active session id is the id of a session of the list.
C29_Claimed ==
    isHydrated => (sessions # <<>> /\ someSession(sessions, activeSessionId))

\* C30: a step of a request (its placeholder, a chunk, its completion, its
\* fallback) leaves the map with the threads it found, in their order, and
\* changes none of them but the thread of the request; when that thread
\* has been deleted the step changes nothing at all.
C30_DeletedStaysDeleted ==
    lastOp.op \in {"FetchOk", "StreamChunk", "StreamDone", "RequestFail"} =>
        \A r \in lastOp.inflight :
            /\ keys(threads) = keys(lastOp.before)
            /\ \A i \in 1..Len(lastOp.before) :
                  lastOp.before[i].id # r.threadId => threads[i] = lastOp.before[i]
            /\ ~has(lastOp.before, r.threadId) => threads = lastOp.before

\* C30 witness: the fallback of a request has run after the thread of the
\* request was deleted with its parent, which other threads survived, and
\* after the placeholder had been added to it.
C30_Witness ==
    /\ lastOp.op = "RequestFail"
    /\ threads # <<>>
    /\ \E r \in lastOp.inflight :
          /\ r.phase = "stream"
          /\ r.kind = "branch"
          /\ ~has(threads, r.threadId)
          /\ \E other \in requests : ~has(threads, other.threadId)

====
